---- MODULE Spec2Model ----
(***************************************************************************)
(* Model of src/util.rs of tlrc: language resolution from the environment  *)
(* and the config (get_languages_from_env, get_languages), the order       *)
(* preserving deduplication (Dedup::dedup_nosort) and duration_fmt.        *)
(*                                                                         *)
(* A Rust String is modelled as the sequence of its chars; a char is a     *)
(* TLA+ string naming it.  Byte lengths and byte offsets are computed from *)
(* the UTF-8 width of each char, as str::len and str slicing do.           *)
(***************************************************************************)
EXTENDS Integers, Sequences, FiniteSets, TLC

VARIABLES
    lang,       \* process environment: LANG
    language,   \* process environment: LANGUAGE
    languages,  \* config.cache.languages
    ret,        \* outcome of the last call of get_languages(_from_env)
    last,       \* the operation that ran last
    cfg0,       \* config.cache.languages as loaded, before any call
    ncalls,     \* number of get_languages calls so far
    vec,        \* the Vec<T> dedup_nosort works on
    vec0,       \* vec as it was before the first dedup_nosort
    ndedup,     \* number of dedup_nosort calls so far
    secs,       \* argument of duration_fmt
    out         \* String returned by duration_fmt ("" before the call)

vars == <<lang, language, languages, ret, last, cfg0, ncalls,
          vec, vec0, ndedup, secs, out>>

envVars == <<lang, language>>
cfgVars == <<languages, cfg0, ncalls>>
dedupVars == <<vec, vec0, ndedup>>
durVars == <<secs, out>>

----------------------------------------------------------------------------
(* Bounds of the model *)

MaxTokLen == 5      \* chars in an enumerated LANG value
MaxTokens == 2      \* tokens joined into a LANGUAGE value
MaxCalls == 3       \* get_languages calls in one behaviour
MaxCfgLen == 2      \* entries of config.cache.languages as loaded
MaxVecLen == 4      \* length of the vector given to dedup_nosort
NumElems == 3       \* distinct element values in that vector
MaxSecs == 180000   \* largest argument of duration_fmt

----------------------------------------------------------------------------
(* Strings *)

\* U+00E9, a char whose UTF-8 encoding takes two bytes
EAcute == "U+00E9"

\* char::len_utf8 for the chars used here
Utf8Len(c) == IF c = EAcute THEN 2 ELSE 1

\* str::len: the length in bytes
RECURSIVE StrLen(_)
StrLen(s) == IF s = <<>> THEN 0 ELSE Utf8Len(Head(s)) + StrLen(Tail(s))

\* Option<char>
NoChar == [some |-> FALSE, ch |-> ""]
SomeChar(c) == [some |-> TRUE, ch |-> c]

\* s.chars().nth(n): the n-th char (from 0), None past the end
CharsNth(s, n) == IF n < Len(s) THEN SomeChar(s[n + 1]) ELSE NoChar

\* the number of leading chars of s that end at byte offset n, or -1 when
\* offset n is past the end or inside a char (str::is_char_boundary is false)
CharsToByte(s, n) ==
    LET ks == {k \in 0..Len(s) : StrLen(SubSeq(s, 1, k)) = n}
    IN  IF ks = {} THEN -1 ELSE CHOOSE k \in ks : TRUE

\* &s[..n]: panics unless n is a char boundary of s
SliceTo(s, n) ==
    LET k == CharsToByte(s, n)
    IN  IF k = -1 THEN [panic |-> TRUE, val |-> <<>>]
        ELSE [panic |-> FALSE, val |-> SubSeq(s, 1, k)]

\* s.split(':'): the pieces between separators, at least one piece
RECURSIVE SplitFrom(_, _, _)
SplitFrom(s, sep, cur) ==
    IF s = <<>> THEN <<cur>>
    ELSE IF Head(s) = sep THEN <<cur>> \o SplitFrom(Tail(s), sep, <<>>)
    ELSE SplitFrom(Tail(s), sep, Append(cur, Head(s)))

Split(s, sep) == SplitFrom(s, sep, <<>>)

\* the literal "en"
En == <<"e", "n">>

----------------------------------------------------------------------------
(* The process environment *)

\* a variable of the process environment: unset, set to a value that is
\* no valid Unicode, or set to a string
Unset == [set |-> FALSE, unicode |-> TRUE, val |-> <<>>]
NotUnicode == [set |-> TRUE, unicode |-> FALSE, val |-> <<>>]
SetTo(s) == [set |-> TRUE, unicode |-> TRUE, val |-> s]

\* Option<String>
None == [some |-> FALSE, val |-> <<>>]
Some(s) == [some |-> TRUE, val |-> s]

\* env::var(name).ok(): None when unset or not Unicode
EnvVarOk(v) == IF v.set /\ v.unicode THEN Some(v.val) ELSE None

----------------------------------------------------------------------------
(* get_languages_from_env *)

\* what a call leaves: a returned Vec<String>, or a panic
Returned(list) == [kind |-> "ok", val |-> list]
Panicked == [kind |-> "panic", val |-> <<>>]
NotCalled == [kind |-> "none", val |-> <<>>]

\* the loop over the tokens: pushes onto result, stops at a panic
RECURSIVE PushLanguages(_, _)
PushLanguages(toks, result) ==
    IF toks = <<>> THEN Returned(result)
    ELSE LET l == Head(toks)
         IN  IF StrLen(l) >= 5 /\ CharsNth(l, 2) = SomeChar("_")
             THEN LET five == SliceTo(l, 5)
                      two == SliceTo(l, 2)
                  IN  IF five.panic \/ two.panic THEN Panicked
                      ELSE PushLanguages(Tail(toks),
                                         result \o <<five.val, two.val>>)
             ELSE IF StrLen(l) = 2
             THEN PushLanguages(Tail(toks), Append(result, l))
             ELSE PushLanguages(Tail(toks), result)

\* get_languages_from_env without the early return: an absent LANG counts
\* as an empty one and LANGUAGE is still read
GetLanguagesFromEnv_OverrideOnly(env_lang, env_language) ==
    LET var_lang == EnvVarOk(env_lang)
        var_language == EnvVarOk(env_language)
        over == IF var_language.some THEN var_language.val ELSE <<>>
        toks == Append(Split(over, ":"), var_lang.val)
        pushed == PushLanguages(toks, <<>>)
    IN  IF pushed.kind = "panic" THEN Panicked
        ELSE Returned(Append(pushed.val, En))

\* get_languages_from_env without the push of "en" after the loop
GetLanguagesFromEnv_NoFallback(env_lang, env_language) ==
    LET var_lang == EnvVarOk(env_lang)
        var_language == EnvVarOk(env_language)
    IN  IF ~var_lang.some THEN Returned(<<En>>)
        ELSE LET over == IF var_language.some THEN var_language.val ELSE <<>>
                 toks == Append(Split(over, ":"), var_lang.val)
             IN  PushLanguages(toks, <<>>)

GetLanguagesFromEnv(env_lang, env_language) ==
    LET var_lang == EnvVarOk(env_lang)
        var_language == EnvVarOk(env_language)
    IN  IF ~var_lang.some THEN Returned(<<En>>)
        ELSE LET over == IF var_language.some THEN var_language.val ELSE <<>>
                 toks == Append(Split(over, ":"), var_lang.val)
                 pushed == PushLanguages(toks, <<>>)
             IN  IF pushed.kind = "panic" THEN Panicked
                 ELSE Returned(Append(pushed.val, En))

----------------------------------------------------------------------------
(* get_languages *)

\* get_languages cloning the list before the push
GetLanguages_ReturnsOld(cfg, env_lang, env_language) ==
    IF cfg = <<>>
    THEN [languages |-> cfg, ret |-> GetLanguagesFromEnv(env_lang, env_language)]
    ELSE [languages |-> Append(cfg, En), ret |-> Returned(cfg)]

\* get_languages pushing "en" in the environment branch too
GetLanguages_AlwaysPush(cfg, env_lang, env_language) ==
    IF cfg = <<>>
    THEN [languages |-> Append(cfg, En),
          ret |-> GetLanguagesFromEnv(env_lang, env_language)]
    ELSE LET pushed == Append(cfg, En)
         IN  [languages |-> pushed, ret |-> Returned(pushed)]

\* get_languages pushing "en" only onto a list that does not end with it
GetLanguages_PushOnce(cfg, env_lang, env_language) ==
    IF cfg = <<>>
    THEN [languages |-> cfg, ret |-> GetLanguagesFromEnv(env_lang, env_language)]
    ELSE LET pushed == IF cfg[Len(cfg)] = En THEN cfg ELSE Append(cfg, En)
         IN  [languages |-> pushed, ret |-> Returned(pushed)]

\* the config list after the call, and what the call leaves
GetLanguages(cfg, env_lang, env_language) ==
    IF cfg = <<>>
    THEN [languages |-> cfg, ret |-> GetLanguagesFromEnv(env_lang, env_language)]
    ELSE LET pushed == Append(cfg, En)
         IN  [languages |-> pushed, ret |-> Returned(pushed)]

----------------------------------------------------------------------------
(* Dedup::dedup_nosort *)

\* self.contains(&x)
Contains(v, x) == \E i \in 1..Len(v) : v[i] = x

\* the loop over old, pushing onto self what self does not contain yet
RECURSIVE DedupLoop(_, _)
DedupLoop(old, self) ==
    IF old = <<>> THEN self
    ELSE IF ~Contains(self, Head(old))
         THEN DedupLoop(Tail(old), Append(self, Head(old)))
         ELSE DedupLoop(Tail(old), self)

\* Vec::dedup: only an element equal to the one before it is dropped
RECURSIVE DedupAdjacentLoop(_, _)
DedupAdjacentLoop(old, self) ==
    IF old = <<>> THEN self
    ELSE IF self = <<>> \/ self[Len(self)] # Head(old)
         THEN DedupAdjacentLoop(Tail(old), Append(self, Head(old)))
         ELSE DedupAdjacentLoop(Tail(old), self)

DedupNosort_Adjacent(v) == DedupAdjacentLoop(v, <<>>)

DedupNosort(v) == DedupLoop(v, <<>>)

----------------------------------------------------------------------------
(* duration_fmt *)

DAY == 86400
HOUR == 3600
MINUTE == 60

Digit == <<"0", "1", "2", "3", "4", "5", "6", "7", "8", "9">>

\* the Display of an unsigned integer: its decimal digits
RECURSIVE Display(_)
Display(n) ==
    IF n < 10 THEN Digit[n + 1]
    ELSE Display(n \div 10) \o Digit[(n % 10) + 1]

\* duration_fmt with the hours taken of the whole duration
DurationFmt_HoursOfTotal(s) ==
    LET days == s \div DAY
        hours == s \div HOUR
    IN  IF days = 0
        THEN LET minutes == ((s % DAY) % HOUR) \div MINUTE
             IN  IF hours = 0
                 THEN IF minutes = 0
                      THEN Display(s) \o "s"
                      ELSE LET seconds == s % MINUTE
                           IN  IF seconds = 0
                               THEN Display(minutes) \o "min"
                               ELSE Display(minutes) \o "min, "
                                    \o Display(seconds) \o "s"
                 ELSE IF minutes = 0
                 THEN Display(hours) \o "h"
                 ELSE Display(hours) \o "h, " \o Display(minutes) \o "min"
        ELSE IF hours = 0
        THEN Display(days) \o "d"
        ELSE Display(days) \o "d, " \o Display(hours) \o "h"

\* duration_fmt adding the seconds to whole hours
DurationFmt_HoursAndSeconds(s) ==
    LET days == s \div DAY
        hours == (s % DAY) \div HOUR
    IN  IF days = 0
        THEN LET minutes == ((s % DAY) % HOUR) \div MINUTE
                 seconds == s % MINUTE
             IN  IF hours = 0
                 THEN IF minutes = 0
                      THEN Display(s) \o "s"
                      ELSE IF seconds = 0
                           THEN Display(minutes) \o "min"
                           ELSE Display(minutes) \o "min, "
                                \o Display(seconds) \o "s"
                 ELSE IF minutes = 0
                 THEN IF seconds = 0
                      THEN Display(hours) \o "h"
                      ELSE Display(hours) \o "h, " \o Display(seconds) \o "s"
                 ELSE Display(hours) \o "h, " \o Display(minutes) \o "min"
        ELSE IF hours = 0
        THEN Display(days) \o "d"
        ELSE Display(days) \o "d, " \o Display(hours) \o "h"

DurationFmt(s) ==
    LET days == s \div DAY
        hours == (s % DAY) \div HOUR
    IN  IF days = 0
        THEN LET minutes == ((s % DAY) % HOUR) \div MINUTE
             IN  IF hours = 0
                 THEN IF minutes = 0
                      THEN Display(s) \o "s"
                      ELSE LET seconds == s % MINUTE
                           IN  IF seconds = 0
                               THEN Display(minutes) \o "min"
                               ELSE Display(minutes) \o "min, "
                                    \o Display(seconds) \o "s"
                 ELSE IF minutes = 0
                 THEN Display(hours) \o "h"
                 ELSE Display(hours) \o "h, " \o Display(minutes) \o "min"
        ELSE IF hours = 0
        THEN Display(days) \o "d"
        ELSE Display(days) \o "d, " \o Display(hours) \o "h"

----------------------------------------------------------------------------
(* Input domains *)

\* the strings of at most n chars over the chars of cs
StringsOver(cs, n) == UNION {[1..k -> cs] : k \in 0..n}

\* a one-byte char that is no '_', the '_', and a two-byte char
EnumChars == {"l", "_", EAcute}

\* tokens of a LANGUAGE value: empty, ll, ll_CC with a tail, a three letter
\* code, and one with a two-byte char before the '_'
OverrideTokens ==
    { <<>>,
      <<"i", "t">>,
      En,
      <<"d", "e", "u">>,
      <<"d", "e", "_", "D", "E", ".", "U", "T", "F", "-", "8">>,
      <<"l", EAcute, "_", "l", "l">> }

\* the tokens joined with the separator
RECURSIVE Join(_, _)
Join(toks, sep) ==
    IF Len(toks) = 1 THEN toks[1]
    ELSE toks[1] \o <<sep>> \o Join(Tail(toks), sep)

LangValues ==
    {Unset, NotUnicode} \cup {SetTo(s) : s \in StringsOver(EnumChars, MaxTokLen)}

LanguageValues ==
    {Unset, NotUnicode}
    \cup {SetTo(Join(ts, ":")) :
            ts \in UNION {[1..k -> OverrideTokens] : k \in 1..MaxTokens}}

\* the values the tests of util.rs give to LANG and LANGUAGE (and a LANG
\* with a two-byte char)
TestLang ==
    { Unset, NotUnicode,
      SetTo(<<"c", "z">>),
      SetTo(<<"e", "n", "_", "U", "S", ".", "U", "T", "F", "-", "8">>),
      SetTo(<<"l", EAcute, "_", "l", "l">>) }

TestLanguage ==
    { Unset,
      SetTo(<<"i", "t", ":", "c", "z", ":", "d", "e">>),
      SetTo(<<"d", "e", "_", "D", "E", ".", "U", "T", "F", "-", "8", ":",
              "p", "l", ":", "e", "n">>),
      SetTo(<<":", "d", "e", "u", ":">>) }

\* the language lists a config file can hold
ConfigLanguages ==
    UNION {[1..k -> {<<"f", "r">>, <<"d", "e">>, En}] : k \in 0..MaxCfgLen}

----------------------------------------------------------------------------
(* Actions *)

\* tests::prepare_env: set or remove LANG and LANGUAGE
PrepareEnv(l, ll) ==
    /\ ret.kind # "panic"
    /\ lang' = l
    /\ language' = ll
    /\ last' = "prepare_env"
    /\ UNCHANGED <<languages, cfg0, ncalls, ret, dedupVars, durVars>>

\* a direct call of get_languages_from_env
CallGetLanguagesFromEnv ==
    /\ ret.kind # "panic"
    /\ ret' = GetLanguagesFromEnv(lang, language)
    /\ last' = "get_languages_from_env"
    /\ UNCHANGED <<envVars, cfgVars, dedupVars, durVars>>

\* a call of get_languages(&mut config)
CallGetLanguages ==
    /\ ret.kind # "panic"
    /\ ncalls < MaxCalls
    /\ LET r == GetLanguages(languages, lang, language)
       IN  /\ languages' = r.languages
           /\ ret' = r.ret
    /\ ncalls' = ncalls + 1
    /\ last' = "get_languages"
    /\ UNCHANGED <<envVars, cfg0, dedupVars, durVars>>

\* a call of vec.dedup_nosort()
CallDedupNosort ==
    /\ ndedup < 2
    /\ vec' = DedupNosort(vec)
    /\ ndedup' = ndedup + 1
    /\ last' = "dedup_nosort"
    /\ UNCHANGED <<envVars, cfgVars, ret, vec0, durVars>>

\* a call of duration_fmt(secs)
CallDurationFmt ==
    /\ out = ""
    /\ out' = DurationFmt(secs)
    /\ last' = "duration_fmt"
    /\ UNCHANGED <<envVars, cfgVars, ret, dedupVars, secs>>

----------------------------------------------------------------------------
(* Specifications *)

IdleEnv == lang = Unset /\ language = Unset
IdleCfg == languages = <<>> /\ cfg0 = <<>> /\ ncalls = 0
IdleDedup == vec = <<>> /\ vec0 = <<>> /\ ndedup = 0
IdleDur == secs = 0 /\ out = ""

\* the resolver: a config as loaded, an environment that changes, calls
Init ==
    /\ lang \in TestLang
    /\ language \in TestLanguage
    /\ languages \in ConfigLanguages
    /\ cfg0 = languages
    /\ ncalls = 0
    /\ ret = NotCalled
    /\ last = "init"
    /\ IdleDedup
    /\ IdleDur

Next ==
    \/ \E l \in TestLang, ll \in TestLanguage : PrepareEnv(l, ll)
    \/ CallGetLanguagesFromEnv
    \/ CallGetLanguages

Spec == Init /\ [][Next]_vars

\* get_languages_from_env over the enumerated environment values
InitEnv ==
    /\ lang \in LangValues
    /\ language \in LanguageValues
    /\ IdleCfg
    /\ ret = NotCalled
    /\ last = "init"
    /\ IdleDedup
    /\ IdleDur

NextEnv == ret = NotCalled /\ CallGetLanguagesFromEnv

SpecEnv == InitEnv /\ [][NextEnv]_vars

\* dedup_nosort over the enumerated vectors
InitDedup ==
    /\ vec \in UNION {[1..k -> 1..NumElems] : k \in 0..MaxVecLen}
    /\ vec0 = vec
    /\ ndedup = 0
    /\ IdleEnv
    /\ IdleCfg
    /\ ret = NotCalled
    /\ last = "init"
    /\ IdleDur

NextDedup == CallDedupNosort

SpecDedup == InitDedup /\ [][NextDedup]_vars

\* duration_fmt over the enumerated arguments
InitDur ==
    /\ secs \in 0..MaxSecs
    /\ out = ""
    /\ IdleEnv
    /\ IdleCfg
    /\ ret = NotCalled
    /\ last = "init"
    /\ IdleDedup

NextDur == CallDurationFmt

SpecDur == InitDur /\ [][NextDur]_vars

----------------------------------------------------------------------------
(* Claims about get_languages_from_env, under SpecEnv *)

FromEnvCalled == last = "get_languages_from_env"

\* the entries one token stands for, counting the token in characters
TokenEntries(t) ==
    IF Len(t) >= 5 /\ t[3] = "_" THEN <<SubSeq(t, 1, 5), SubSeq(t, 1, 2)>>
    ELSE IF Len(t) = 2 THEN <<t>>
    ELSE <<>>

RECURSIVE Entries(_)
Entries(toks) ==
    IF toks = <<>> THEN <<>> ELSE TokenEntries(Head(toks)) \o Entries(Tail(toks))

\* C1: for a LANG that is present and a LANGUAGE (absent: the empty string),
\* get_languages_from_env returns the entries of the tokens of LANGUAGE
\* split on ':', then the entries of LANG, then one "en": an ll_CC token
\* gives its first 5 and its first 2 characters, a token of length 2 gives
\* itself, every other token gives nothing.
C1_EnvLanguages ==
    (FromEnvCalled /\ lang.set /\ lang.unicode) =>
        LET over == IF language.set /\ language.unicode THEN language.val
                    ELSE <<>>
        IN  ret = Returned((Entries(Split(over, ":")) \o TokenEntries(lang.val))
                           \o <<En>>)

\* C2: with LANG absent, get_languages_from_env returns exactly ["en"],
\* whatever LANGUAGE is.
C2_LangAbsent ==
    (FromEnvCalled /\ ~lang.set) => ret = Returned(<<En>>)

\* LANG absent and LANGUAGE "it:en": the override alone would give entries
C2_Witness ==
    /\ FromEnvCalled
    /\ lang = Unset
    /\ language = SetTo(<<"i", "t", ":", "e", "n">>)
    /\ ret.kind = "ok"

\* C6: get_languages_from_env completes normally and returns a list for
\* every pair of environment values, multi-byte characters included.
C6_Total ==
    FromEnvCalled => ret.kind = "ok"

----------------------------------------------------------------------------
(* Claims about get_languages, under Spec *)

GetLanguagesStep == ncalls' = ncalls + 1

\* k copies of "en"
Ens(k) == [i \in 1..k |-> En]

\* C3: every list get_languages returns is non-empty and ends with "en".
C3_EndsWithEn ==
    (last = "get_languages" /\ ret.kind = "ok") =>
        /\ Len(ret.val) >= 1
        /\ ret.val[Len(ret.val)] = En

\* a list from the environment, after the environment was changed and an
\* earlier call was made
C3_Witness ==
    /\ last = "get_languages"
    /\ ret.kind = "ok"
    /\ cfg0 = <<>>
    /\ ncalls >= 2
    /\ Len(ret.val) >= 3

\* C4: a call with a non-empty config list L leaves the config list L
\* followed by one "en" and returns that list, whatever the environment.
C4_ConfigBranch ==
    [][(GetLanguagesStep /\ languages # <<>>) =>
            /\ languages' = languages \o <<En>>
            /\ ret' = Returned(languages')]_vars

\* a config list that held "en" already, and a LANG that the environment
\* branch cannot slice
C4_Witness ==
    /\ last = "get_languages"
    /\ Contains(cfg0, En)
    /\ lang = SetTo(<<"l", EAcute, "_", "l", "l">>)
    /\ ret.kind = "ok"

\* C5: a call with an empty config list leaves it empty, and leaves what
\* get_languages_from_env leaves for the same environment.
C5_EnvBranch ==
    [][(GetLanguagesStep /\ languages = <<>>) =>
            /\ languages' = <<>>
            /\ ret' = GetLanguagesFromEnv(lang, language)]_vars

C5_Witness ==
    /\ last = "get_languages"
    /\ cfg0 = <<>>
    /\ languages = <<>>
    /\ ret.kind = "ok"
    /\ Len(ret.val) >= 4

\* C10: on a config list loaded as a non-empty L, the list is L followed
\* by one "en" per call made, each call returns that list, a call makes it
\* longer by one, no step makes it shorter, and no call on a non-empty list
\* leaves the list as it was (the environment branch).
C10_GrowsByOne ==
    /\ [](cfg0 # <<>> =>
            /\ languages = cfg0 \o Ens(ncalls)
            /\ (last = "get_languages" => ret = Returned(languages)))
    /\ [][/\ Len(languages') >= Len(languages)
          /\ (GetLanguagesStep /\ languages # <<>>) =>
                /\ Len(languages') = Len(languages) + 1
                /\ languages' # languages
                /\ ret' = Returned(languages')]_vars

C10_Witness ==
    /\ last = "get_languages"
    /\ cfg0 # <<>>
    /\ ncalls = 3
    /\ Len(languages) = Len(cfg0) + 3

----------------------------------------------------------------------------
(* Claim about dedup_nosort, under SpecDedup *)

Range(v) == {v[i] : i \in 1..Len(v)}

\* the index of the first occurrence of x in v
FirstIndex(v, x) == CHOOSE i \in 1..Len(v) :
                        v[i] = x /\ \A j \in 1..(i - 1) : v[j] # x

\* C7: dedup_nosort leaves each distinct element of the input once, in the
\* order of the first occurrences, and a second call changes nothing.
C7_Dedup ==
    /\ [](ndedup >= 1 =>
            /\ Range(vec) = Range(vec0)
            /\ \A x \in Range(vec0) :
                   Cardinality({i \in 1..Len(vec) : vec[i] = x}) = 1
            /\ \A i, j \in 1..Len(vec) :
                   i < j => FirstIndex(vec0, vec[i]) < FirstIndex(vec0, vec[j]))
    /\ [][ndedup >= 1 => vec' = vec]_vars

\* an input whose duplicates are not adjacent, deduplicated twice
C7_Witness ==
    /\ ndedup = 2
    /\ Len(vec0) = 4
    /\ vec0[1] = vec0[3]
    /\ vec0[1] # vec0[2]
    /\ vec0[4] = vec0[2]
    /\ Len(vec) = 2

----------------------------------------------------------------------------
(* Claims about duration_fmt, under SpecDur *)

\* the units, largest first
Units == <<"d", "h", "min", "s">>

\* the count of unit number u in n seconds
Count(n, u) ==
    IF u = 1 THEN n \div DAY
    ELSE IF u = 2 THEN (n % DAY) \div HOUR
    ELSE IF u = 3 THEN (n % HOUR) \div MINUTE
    ELSE n % MINUTE

NonZero(n) == {u \in 1..4 : Count(n, u) # 0}

\* the largest unit with a non-zero count (seconds when there is none)
Largest(n) == IF NonZero(n) = {} THEN 4
              ELSE CHOOSE u \in NonZero(n) : \A w \in NonZero(n) : u <= w

\* the two largest units with a non-zero count
TwoLargestNonZero(n) ==
    {u \in NonZero(n) : Cardinality({w \in NonZero(n) : w < u}) <= 1}

\* the counts of the units of us, largest first, separated by ", "
RECURSIVE Render(_, _, _)
Render(n, us, from) ==
    IF from > 4 THEN ""
    ELSE IF from \in us
         THEN LET rest == Render(n, {u \in us : u > from}, from + 1)
              IN  Display(Count(n, from)) \o Units[from]
                  \o (IF rest = "" THEN "" ELSE ", " \o rest)
         ELSE Render(n, us, from + 1)

DurationFmtCalled == last = "duration_fmt"

\* C8: duration_fmt(secs) uses the two largest non-zero units among days,
\* hours, minutes and seconds.
C8_TwoLargest ==
    (DurationFmtCalled /\ secs > 0) =>
        out = Render(secs, TwoLargestNonZero(secs), 1)

\* C8, amended: duration_fmt(secs) uses the largest non-zero unit, and of
\* the two largest non-zero units the second only when it is the unit right
\* below the largest; 0 gives "0s".
C8_TwoLargestAdjacent ==
    DurationFmtCalled =>
        out = Render(secs,
                     {Largest(secs)} \cup
                        {u \in TwoLargestNonZero(secs) : u = Largest(secs) + 1},
                     1)

\* a day, a minute and a second: the second largest non-zero unit is left out
C8_Witness ==
    /\ DurationFmtCalled
    /\ secs = DAY + MINUTE + 1
    /\ out = "1d"

\* C9: duration_fmt(secs) names the largest unit with a non-zero count
\* ("{secs}s" below 60) and adds the unit right below it when that count is
\* not zero; 3601 gives "1h", 86401 gives "1d", 3661 gives "1h, 1min".
C9_AdjacentUnits ==
    DurationFmtCalled =>
        /\ LET top == IF secs >= DAY THEN 1
                      ELSE IF secs >= HOUR THEN 2
                      ELSE IF secs >= MINUTE THEN 3
                      ELSE 4
           IN  out = Display(Count(secs, top)) \o Units[top]
                     \o (IF top < 4 /\ Count(secs, top + 1) # 0
                         THEN ", " \o Display(Count(secs, top + 1))
                              \o Units[top + 1]
                         ELSE "")
        /\ (secs < 60 => out = Display(secs) \o "s")
        /\ (secs = 3601 => out = "1h")
        /\ (secs = 86401 => out = "1d")
        /\ (secs = 3661 => out = "1h, 1min")

C9_Witness ==
    /\ DurationFmtCalled
    /\ secs = 3661
    /\ out = "1h, 1min"

====
